---------------------------- MODULE Spec2Model ----------------------------
(***************************************************************************)
(* plag - Photo Location As GeoJSON (src/src/main.rs).                     *)
(*                                                                         *)
(* One run of main: the requested property names are validated, every     *)
(* file is passed to get_feature in order, successes are collected and    *)
(* failures reported on stderr, and the FeatureCollection is written to   *)
(* stdout.                                                                 *)
(*                                                                         *)
(* Texts read from EXIF are byte sequences (exif::Value::Ascii holds       *)
(* Vec<&[u8]>).  An f64 is modelled by the exact fraction it stands for    *)
(* (n / d, d > 0, in lowest terms); rounding is not modelled, and the      *)
(* rationals drawn have a nonzero denominator (no inf / NaN).              *)
(***************************************************************************)
EXTENDS Integers, Sequences, FiniteSets, TLC

VARIABLES
    pc,                \* where main is: "props", "files", "exit1", "panic", "done"
    requested,         \* matches.values_of("properties"), <<>> when not given
    files,             \* matches.values_of_os("files"): the sources, in order
    pi,                \* index of the next requested property to look at
    valid_properties,  \* Vec<Property> built by main
    fi,                \* index of the next file the filter_map closure gets
    features,          \* the features collected so far
    stderr,            \* lines written to stderr
    stdout             \* documents written to stdout

vars == <<pc, requested, files, pi, valid_properties, fi, features, stderr, stdout>>

(***************************************************************************)
(* Bounds of the model.                                                    *)
(***************************************************************************)
MaxFiles == 2
MaxProps == 2

SeqsUpTo(S, lo, hi) == UNION {[1..k -> S] : k \in lo..hi}

(***************************************************************************)
(* Option and Result values; a panic unwinds through every caller, so it  *)
(* is carried like a result and ends the process in main.                  *)
(***************************************************************************)
None == [is_some |-> FALSE]
Some(x) == [is_some |-> TRUE, value |-> x]

Ok(v) == [res |-> "Ok", val |-> v]
Err(e) == [res |-> "Err", err |-> e]
Panic(m) == [res |-> "Panic", msg |-> m]

(***************************************************************************)
(* enum Error                                                              *)
(***************************************************************************)
IoError == [kind |-> "IoError"]
Utf8Error == [kind |-> "Utf8Error"]
FieldMissing(tag) == [kind |-> "FieldMissing", tag |-> tag]
InvalidField(tag, msg) == [kind |-> "InvalidField", tag |-> tag, msg |-> msg]
ExifError == [kind |-> "ExifError"]

\* impl Display for Error
ErrorDisplay(error) ==
    CASE error.kind = "IoError" -> <<"io error">>
      [] error.kind = "Utf8Error" -> <<"utf8 error">>
      [] error.kind = "FieldMissing" -> <<"missing field: ", error.tag>>
      [] error.kind = "InvalidField" -> <<"invalid field ", error.tag, ": ", error.msg>>
      [] error.kind = "ExifError" -> <<"exif error">>

(***************************************************************************)
(* f64 arithmetic on exact fractions.                                      *)
(***************************************************************************)
Abs(x) == IF x < 0 THEN -x ELSE x

RECURSIVE Gcd(_, _)
Gcd(a, b) == IF b = 0 THEN a ELSE Gcd(b, a % b)

F64(n, d) == LET g == Gcd(Abs(n), d) IN [n |-> n \div g, d |-> d \div g]

\* exif::Rational::to_f64: num as f64 / denom as f64
to_f64(r) == F64(r.num, r.denom)

FAdd(x, y) == F64(x.n * y.d + y.n * x.d, x.d * y.d)
FDiv(x, k) == F64(x.n, x.d * k)
FNeg(x) == [n |-> -x.n, d |-> x.d]
FLe(x, y) == x.n * y.d <= y.n * x.d

(***************************************************************************)
(* exif::Tag, exif::Value, and the reader's field lookup.                  *)
(***************************************************************************)
GPSLatitude == "GPSLatitude"
GPSLatitudeRef == "GPSLatitudeRef"
GPSLongitude == "GPSLongitude"
GPSLongitudeRef == "GPSLongitudeRef"
DateTimeOriginal == "DateTimeOriginal"
Tags == {GPSLatitude, GPSLatitudeRef, GPSLongitude, GPSLongitudeRef, DateTimeOriginal}

NoField == [type |-> "None"]
Rational(rats) == [type |-> "Rational", rats |-> rats]
Ascii(strs) == [type |-> "Ascii", strs |-> strs]
Short == [type |-> "Short"]

Rat(num, denom) == [num |-> num, denom |-> denom]

\* reader.get_field(tag, false)
get_field(reader, tag) == reader[tag]

\* std::str::from_utf8 on the bytes drawn here: ASCII bytes, and 0xFF, which
\* no UTF-8 text contains.
from_utf8(s) ==
    IF \A i \in 1..Len(s) : s[i] < 128 THEN Ok(s) ELSE Err(Utf8Error)

\* str::ends_with
ends_with(s, suffix) ==
    /\ Len(s) >= Len(suffix)
    /\ SubSeq(s, Len(s) - Len(suffix) + 1, Len(s)) = suffix

\* get_degrees, were an absent field read as zero degrees
get_degrees_Default(reader, tag) ==
    LET field == get_field(reader, tag) IN
    IF field = NoField THEN Ok(F64(0, 1))
    ELSE IF field.type = "Rational" THEN
        LET dms == field.rats IN
        IF Len(dms) # 3 THEN Err(InvalidField(tag, "expected 3 rationals"))
        ELSE Ok(FAdd(FAdd(to_f64(dms[1]), FDiv(to_f64(dms[2]), 60)),
                     FDiv(to_f64(dms[3]), 3600)))
    ELSE Err(InvalidField(tag, "invalid field type"))

get_degrees(reader, tag) ==
    LET field == get_field(reader, tag) IN
    IF field = NoField THEN Err(FieldMissing(tag))
    ELSE IF field.type = "Rational" THEN
        LET dms == field.rats IN
        IF Len(dms) # 3 THEN Err(InvalidField(tag, "expected 3 rationals"))
        ELSE LET degrees == to_f64(dms[1])
                 min == to_f64(dms[2])
                 sec == to_f64(dms[3])
             IN Ok(FAdd(FAdd(degrees, FDiv(min, 60)), FDiv(sec, 3600)))
    ELSE Err(InvalidField(tag, "invalid field type"))

get_string(reader, tag) ==
    LET field == get_field(reader, tag) IN
    IF field = NoField THEN Err(FieldMissing(tag))
    ELSE IF field.type = "Ascii" THEN
        \* s[0] on an empty Vec panics
        IF Len(field.strs) = 0 THEN Panic("index out of bounds")
        ELSE from_utf8(field.strs[1])
    ELSE Err(InvalidField(tag, "field is not a string"))

get_latitude(reader) ==
    LET latitude == get_degrees(reader, GPSLatitude) IN
    IF latitude.res # "Ok" THEN latitude
    ELSE LET ref_ == get_string(reader, GPSLatitudeRef) IN
         IF ref_.res # "Ok" THEN ref_
         ELSE IF ends_with(ref_.val, <<83>>) THEN Ok(FNeg(latitude.val))
         ELSE Ok(latitude.val)

\* get_longitude, were its hemisphere test the one of get_latitude
get_longitude_TestsS(reader) ==
    LET longitude == get_degrees(reader, GPSLongitude) IN
    IF longitude.res # "Ok" THEN longitude
    ELSE LET ref_ == get_string(reader, GPSLongitudeRef) IN
         IF ref_.res # "Ok" THEN ref_
         ELSE IF ends_with(ref_.val, <<83>>) THEN Ok(FNeg(longitude.val))
         ELSE Ok(longitude.val)

get_longitude(reader) ==
    LET longitude == get_degrees(reader, GPSLongitude) IN
    IF longitude.res # "Ok" THEN longitude
    ELSE LET ref_ == get_string(reader, GPSLongitudeRef) IN
         IF ref_.res # "Ok" THEN ref_
         ELSE IF ends_with(ref_.val, <<87>>) THEN Ok(FNeg(longitude.val))
         ELSE Ok(longitude.val)

(***************************************************************************)
(* enum Property and its Display.                                          *)
(***************************************************************************)
Filename == "Filename"
Path == "Path"
Datetime == "Datetime"
Property == {Filename, Path, Datetime}

\* Display for Property, were Datetime written "date"
PropertyDisplay_Date(prop) ==
    CASE prop = Filename -> "filename"
      [] prop = Path -> "path"
      [] prop = Datetime -> "date"

PropertyDisplay(prop) ==
    CASE prop = Filename -> "filename"
      [] prop = Path -> "path"
      [] prop = Datetime -> "datetime"

(***************************************************************************)
(* Paths.  A path is its sequence of components; a source is a path with  *)
(* what the file system and the EXIF decoder answer for it:               *)
(*   kind  "missing" (File::open fails), "dir" / "notexif"                *)
(*         (exif::Reader::new fails), "exif" (a reader is built);         *)
(*   canon whether canonicalize finds the file;                           *)
(*   exif  the decoded fields, by tag.                                    *)
(***************************************************************************)
Cwd == <<"home", "u">>

\* Path::file_name: None when the path is empty or ends in ".." or "."
file_name(path) ==
    IF Len(path) = 0 \/ path[Len(path)] \in {"..", "."} THEN None
    ELSE Some(path[Len(path)])

\* OsStr::to_string_lossy: invalid sequences become U+FFFD
to_string_lossy(s) == IF s = "c\\xFF.jpg" THEN "c\\uFFFD.jpg" ELSE s

PathLossy(path) == [i \in 1..Len(path) |-> to_string_lossy(path[i])]

RECURSIVE Resolve(_, _)
Resolve(acc, rest) ==
    IF rest = <<>> THEN acc
    ELSE IF Head(rest) = "." THEN Resolve(acc, Tail(rest))
    ELSE IF Head(rest) = ".." THEN
        Resolve(IF acc = <<>> THEN acc ELSE SubSeq(acc, 1, Len(acc) - 1), Tail(rest))
    ELSE Resolve(Append(acc, Head(rest)), Tail(rest))

\* Path::canonicalize
canonicalize(src) ==
    IF src.canon THEN Ok(Resolve(Cwd, src.path)) ELSE Err(IoError)

\* serde_json::to_value of a string
to_value(s) == Ok([String |-> s])

unwrap(r) == IF r.res = "Ok" THEN r ELSE Panic("called unwrap on an Err value")

\* the body of `for prop in properties`: the value of one property
PropertyValue(src, reader, prop) ==
    CASE prop = Filename ->
           LET name == file_name(src.path) IN
           IF name = None THEN Panic("called unwrap on a None value")
           ELSE to_value(to_string_lossy(name.value))
      [] prop = Path ->
           LET path == canonicalize(src) IN
           IF path.res # "Ok" THEN path ELSE to_value(PathLossy(path.val))
      [] prop = Datetime ->
           LET data == get_string(reader, DateTimeOriginal) IN
           IF data.res # "Ok" THEN data ELSE to_value(data.val)

\* Map::insert
MapInsert(m, k, v) == [x \in DOMAIN m \cup {k} |-> IF x = k THEN v ELSE m[x]]

\* the loop `for prop in properties` from its i-th element on
RECURSIVE PropsLoop(_, _, _, _, _)
PropsLoop(src, reader, properties, i, props) ==
    IF i > Len(properties) THEN Ok(props)
    ELSE LET key == PropertyDisplay(properties[i])
             value == PropertyValue(src, reader, properties[i])
         IN IF value.res # "Ok" THEN value
            ELSE PropsLoop(src, reader, properties, i + 1,
                           MapInsert(props, key, unwrap(value).val))

EmptyMap == [x \in {} |-> x]

\* geo_types::Point from (longitude, latitude), then geojson::Value::from
PointValue(x, y) == [type |-> "Point", coordinates |-> <<x, y>>]

get_feature(src, properties) ==
    IF src.kind = "missing" THEN Err(IoError)
    ELSE IF src.kind # "exif" THEN Err(ExifError)
    ELSE LET reader == src.exif
             latitude == get_latitude(reader)
         IN IF latitude.res # "Ok" THEN latitude
            ELSE LET longitude == get_longitude(reader) IN
                 IF longitude.res # "Ok" THEN longitude
                 ELSE LET props == PropsLoop(src, reader, properties, 1, EmptyMap) IN
                      IF props.res # "Ok" THEN props
                      ELSE Ok([bbox |-> None,
                               geometry |-> Some(PointValue(longitude.val, latitude.val)),
                               id |-> None,
                               properties |-> Some(props.val),
                               foreign_members |-> None])

(***************************************************************************)
(* main                                                                    *)
(***************************************************************************)
PropertyNames == {"filename", "path", "datetime", "foo"}

\* the match, were an unknown name skipped instead of ending the run
ParseProperty_Lenient(prop) ==
    CASE prop = "path" -> Some(Path)
      [] prop = "datetime" -> Some(Datetime)
      [] OTHER -> Some(Filename)

\* the match on a requested property name
ParseProperty(prop) ==
    CASE prop = "filename" -> Some(Filename)
      [] prop = "path" -> Some(Path)
      [] prop = "datetime" -> Some(Datetime)
      [] OTHER -> None

\* one iteration of `for prop in requested_properties`, a known name
PushProperty ==
    /\ pc = "props"
    /\ pi <= Len(requested)
    /\ ParseProperty(requested[pi]) # None
    /\ valid_properties' = Append(valid_properties, ParseProperty(requested[pi]).value)
    /\ pi' = pi + 1
    /\ UNCHANGED <<pc, requested, files, fi, features, stderr, stdout>>

\* one iteration of `for prop in requested_properties`, an unknown name
UnknownProperty ==
    /\ pc = "props"
    /\ pi <= Len(requested)
    /\ ParseProperty(requested[pi]) = None
    /\ stderr' = Append(stderr, [kind |-> "unknown property", prop |-> requested[pi]])
    /\ pc' = "exit1"
    /\ UNCHANGED <<requested, files, pi, valid_properties, fi, features, stdout>>

\* the property loop is over: files.into_iter().filter_map(..) starts
BeginFiles ==
    /\ pc = "props"
    /\ pi > Len(requested)
    /\ pc' = "files"
    /\ UNCHANGED <<requested, files, pi, valid_properties, fi, features, stderr, stdout>>

\* the closure, were a new feature put in front of the collected ones
Closure_Prepend(path, r) ==
    \/ /\ r.res = "Ok"
       /\ features' = <<r.val>> \o features
       /\ UNCHANGED <<stderr, pc>>
    \/ /\ r.res = "Err"
       /\ stderr' = Append(stderr, [kind |-> "source", path |-> PathLossy(path),
                                    error |-> ErrorDisplay(r.err)])
       /\ UNCHANGED <<features, pc>>
    \/ /\ r.res = "Panic"
       /\ stderr' = Append(stderr, [kind |-> "panic", msg |-> r.msg])
       /\ pc' = "panic"
       /\ UNCHANGED features

\* the closure's outcome for one result of get_feature
Closure(path, r) ==
    \/ /\ r.res = "Ok"
       /\ features' = Append(features, r.val)
       /\ UNCHANGED <<stderr, pc>>
    \/ /\ r.res = "Err"
       /\ stderr' = Append(stderr, [kind |-> "source", path |-> PathLossy(path),
                                    error |-> ErrorDisplay(r.err)])
       /\ UNCHANGED <<features, pc>>
    \/ /\ r.res = "Panic"
       /\ stderr' = Append(stderr, [kind |-> "panic", msg |-> r.msg])
       /\ pc' = "panic"
       /\ UNCHANGED features

\* one call of the filter_map closure
ProcessFile ==
    /\ pc = "files"
    /\ fi <= Len(files)
    /\ Closure(files[fi].path, get_feature(files[fi], valid_properties))
    /\ fi' = fi + 1
    /\ UNCHANGED <<requested, files, pi, valid_properties, stdout>>

\* GeoJson::from(FeatureCollection {..})
GeoJsonFrom(fs) ==
    [type |-> "FeatureCollection", bbox |-> None, features |-> fs, foreign_members |-> None]

\* collect(), then the document is written, pretty or not
WriteOutput ==
    /\ pc = "files"
    /\ fi > Len(files)
    /\ \E pretty \in BOOLEAN :
          stdout' = Append(stdout, [pretty |-> pretty, geojson |-> GeoJsonFrom(features)])
    /\ pc' = "done"
    /\ UNCHANGED <<requested, files, pi, valid_properties, fi, features, stderr>>

Next == PushProperty \/ UnknownProperty \/ BeginFiles \/ ProcessFile \/ WriteOutput

InitRun ==
    /\ pc = "props"
    /\ pi = 1
    /\ valid_properties = <<>>
    /\ fi = 1
    /\ features = <<>>
    /\ stderr = <<>>
    /\ stdout = <<>>

(***************************************************************************)
(* The inputs.  Texts are byte sequences: "N" "S" "E" "W", a padded "S ", *)
(* and one that is not UTF-8.                                              *)
(***************************************************************************)
TextN == <<78>>
TextS == <<83>>
TextE == <<69>>
TextW == <<87>>
TextSPad == <<83, 32>>
TextBad == <<255>>
Text2018 == <<50, 48, 49, 56>>

Dms(d, m, s) == Rational(<<Rat(d, 1), Rat(m, 1), Rat(s, 1)>>)

Exif(lat, latref, lon, lonref, dt) ==
    [t \in Tags |->
        CASE t = GPSLatitude -> lat
          [] t = GPSLatitudeRef -> latref
          [] t = GPSLongitude -> lon
          [] t = GPSLongitudeRef -> lonref
          [] t = DateTimeOriginal -> dt]

Source(path, kind, canon, exif) ==
    [path |-> path, kind |-> kind, canon |-> canon, exif |-> exif]

NoExif == [t \in Tags |-> NoField]

\* the sources of a batch: two photos, and one for each way to fail
BatchSources ==
    { Source(<<"a.jpg">>, "exif", TRUE,
             Exif(Dms(40, 26, 46), Ascii(<<TextN>>), Dms(79, 56, 55), Ascii(<<TextW>>),
                  Ascii(<<Text2018>>))),
      Source(<<"d", "..", "b.jpg">>, "exif", TRUE,
             Exif(Dms(33, 51, 54), Ascii(<<TextS>>), Dms(151, 12, 36), Ascii(<<TextE>>),
                  NoField)),
      Source(<<"c\\xFF.jpg">>, "exif", FALSE,
             Exif(Dms(1, 2, 3), Ascii(<<TextN>>), Dms(4, 5, 6), Ascii(<<TextE>>),
                  Ascii(<<TextBad>>))),
      Source(<<"gone.jpg">>, "missing", FALSE, NoExif),
      Source(<<"..">>, "dir", TRUE, NoExif),
      Source(<<"e.jpg">>, "exif", TRUE,
             Exif(NoField, Ascii(<<TextN>>), Dms(4, 5, 6), Ascii(<<TextE>>),
                  Ascii(<<Text2018>>))),
      Source(<<"f.jpg">>, "exif", TRUE,
             Exif(Dms(1, 2, 3), Ascii(<<>>), Dms(4, 5, 6), Ascii(<<TextE>>),
                  Ascii(<<Text2018>>))),
      Source(<<"g.jpg">>, "exif", FALSE,
             Exif(Dms(1, 2, 3), Ascii(<<TextS>>), Dms(4, 5, 6), Ascii(<<TextW>>),
                  Ascii(<<>>))) }

Init ==
    /\ InitRun
    /\ requested \in SeqsUpTo(PropertyNames, 0, MaxProps)
    /\ files \in SeqsUpTo(BatchSources, 1, MaxFiles)

Spec == Init /\ [][Next]_vars

\* one photo, every shape of the four GPS fields
DegreeFields ==
    { NoField, Short, Ascii(<<TextN>>),
      Rational(<<>>), Rational(<<Rat(40, 1), Rat(26, 1)>>),
      Rational(<<Rat(1, 1), Rat(2, 1), Rat(3, 1), Rat(4, 1)>>),
      Dms(40, 26, 46), Dms(200, 0, 0),
      Rational(<<Rat(179, 2), Rat(61, 1), Rat(3, 2)>>) }

RefFields ==
    { NoField, Short, Ascii(<<>>),
      Ascii(<<TextN>>), Ascii(<<TextS>>), Ascii(<<TextW>>),
      Ascii(<<TextSPad>>), Ascii(<<TextBad>>), Ascii(<<TextE, TextS>>) }

CoordSources ==
    { Source(<<"a.jpg">>, "exif", TRUE, Exif(lat, latref, lon, lonref, Ascii(<<Text2018>>))) :
        lat \in DegreeFields, latref \in RefFields,
        lon \in DegreeFields \ {Ascii(<<TextN>>)}, lonref \in RefFields }

InitCoord ==
    /\ InitRun
    /\ requested \in SeqsUpTo(PropertyNames, 0, 1)
    /\ files \in SeqsUpTo(CoordSources, 1, 1)

SpecCoord == InitCoord /\ [][Next]_vars

(***************************************************************************)
(* What the claims speak of.                                               *)
(***************************************************************************)
Range(seq) == {seq[i] : i \in 1..Len(seq)}

IsPrefix(s, t) == Len(s) <= Len(t) /\ SubSeq(t, 1, Len(s)) = s

\* the files already handed to get_feature
Processed == 1..(fi - 1)

\* what get_feature answers for the i-th file
Outcome(i) == get_feature(files[i], valid_properties)

\* the features of the first n files that succeed, in input order
RECURSIVE Successes(_)
Successes(n) ==
    IF n = 0 THEN <<>>
    ELSE IF Outcome(n).res = "Ok" THEN Append(Successes(n - 1), Outcome(n).val)
    ELSE Successes(n - 1)

\* the place in `features` of the feature of file i, when it succeeds
FeatureIndex(i) == Cardinality({j \in 1..i : Outcome(j).res = "Ok"})

SourceLines == SelectSeq(stderr, LAMBDA line : line.kind = "source")

SourceLine(src, error) ==
    [kind |-> "source", path |-> PathLossy(src.path), error |-> ErrorDisplay(error)]

HasUnknown == \E i \in 1..Len(requested) : requested[i] \notin {"filename", "path", "datetime"}

GpsTags == <<GPSLatitude, GPSLatitudeRef, GPSLongitude, GPSLongitudeRef>>

Absent(src, t) == src.exif[t] = NoField
AbsentTags(src) == {k \in 1..4 : Absent(src, GpsTags[k])}

\* a field of the shape its reader expects
DegreesWellFormed(f) == f.type = "Rational" /\ Len(f.rats) = 3
TextWellFormed(f) ==
    /\ f.type = "Ascii"
    /\ Len(f.strs) > 0
    /\ \A i \in 1..Len(f.strs[1]) : f.strs[1][i] < 128
WellFormed(src, k) ==
    IF k \in {1, 3} THEN DegreesWellFormed(src.exif[GpsTags[k]])
    ELSE TextWellFormed(src.exif[GpsTags[k]])

\* C1: the collected features are exactly the features of the files whose
\* get_feature succeeded, one each, in input order; what is collected at any
\* point of the run is a prefix of the final sequence; the document written
\* carries that sequence.
C1_FeaturesInInputOrder ==
    /\ features = Successes(fi - 1)
    /\ Len(features) = Cardinality({i \in Processed : Outcome(i).res = "Ok"})
    /\ IsPrefix(features, Successes(Len(files)))
    /\ pc = "done" =>
          /\ Len(stdout) = 1
          /\ stdout[1].geojson.features = Successes(Len(files))

C1_Witness ==
    /\ pc = "done"
    /\ Len(files) = 2
    /\ Outcome(1).res = "Err"
    /\ Outcome(2).res = "Ok"
    /\ stdout[1].geojson.features = <<Outcome(2).val>>

\* C2: a failure while processing one file never aborts the batch: the file
\* adds no feature and exactly one diagnostic, the later files are still
\* processed, and at the end features + diagnostics = files.
C2_FailureNeverAborts ==
    /\ pc # "panic"
    /\ pc \in {"files", "done"} => Len(features) + Len(SourceLines) = fi - 1
    /\ pc = "done" => Len(features) + Len(SourceLines) = Len(files)

\* C3: when the requested list holds an unknown name, at whatever position,
\* no file is handed to get_feature, no per-file diagnostic is written and
\* nothing is written to stdout: the run stays in the property loop or exits.
C3_UnknownPropertyAbortsFirst ==
    HasUnknown =>
        /\ pc \in {"props", "exit1"}
        /\ fi = 1
        /\ features = <<>>
        /\ stdout = <<>>
        /\ SourceLines = <<>>

C3_Witness ==
    /\ pc = "exit1"
    /\ Len(requested) = 2
    /\ requested[1] = "path"
    /\ requested[2] = "foo"
    /\ stderr = <<[kind |-> "unknown property", prop |-> "foo"]>>

\* C4: when every requested name is valid the run never ends short of the
\* aggregation step, and the document is written exactly once, after every
\* file has been processed; when every file fails its features are empty.
C4_AlwaysWritesOnce ==
    ~HasUnknown =>
        /\ pc \in {"props", "files", "done"}
        /\ pc # "done" => stdout = <<>>
        /\ pc = "done" =>
              /\ Len(stdout) = 1
              /\ fi = Len(files) + 1
              /\ (\A i \in 1..Len(files) : Outcome(i).res # "Ok") =>
                     stdout[1].geojson.features = <<>>

\* C5 as stated: a file lacking any of the four GPS tags yields no feature,
\* and when exactly one tag is absent its error is FieldMissing of that tag.
C5_Original ==
    \A i \in Processed :
        LET src == files[i] IN
        (src.kind = "exif" /\ AbsentTags(src) # {}) =>
            /\ features = <<>>
            /\ \A k \in 1..4 :
                  AbsentTags(src) = {k} =>
                      stderr = <<SourceLine(src, FieldMissing(GpsTags[k]))>>

\* C5 as amended: a file lacking any of the four GPS tags yields no feature,
\* and when exactly one tag is absent and every tag read before it (in the
\* order GPSLatitude, GPSLatitudeRef, GPSLongitude, GPSLongitudeRef) is
\* well-formed, its error is FieldMissing of that tag.
C5_AllOrNothing ==
    \A i \in Processed :
        LET src == files[i] IN
        (src.kind = "exif" /\ AbsentTags(src) # {}) =>
            /\ features = <<>>
            /\ \A k \in 1..4 :
                  (AbsentTags(src) = {k} /\ \A j \in 1..(k - 1) : WellFormed(src, j)) =>
                      stderr = <<SourceLine(src, FieldMissing(GpsTags[k]))>>

C5_Witness ==
    /\ fi = 2
    /\ AbsentTags(files[1]) = {4}
    /\ \A j \in 1..3 : WellFormed(files[1], j)
    /\ features = <<>>
    /\ stderr = <<SourceLine(files[1], FieldMissing(GPSLongitudeRef))>>

\* a present field that C6 calls malformed: a degrees field that is not three
\* rationals, a reference field that is not text or holds no string
Malformed(src, k) ==
    LET f == src.exif[GpsTags[k]] IN
    /\ f # NoField
    /\ IF k \in {1, 3} THEN ~DegreesWellFormed(f)
       ELSE f.type # "Ascii" \/ Len(f.strs) = 0

\* C6: a present but malformed GPS field (reached, the fields read before it
\* being well-formed) always yields that file's InvalidField error for the
\* tag concerned, never a crash and never a coordinate.
C6_MalformedIsInvalidField ==
    \A i \in Processed :
        LET src == files[i] IN
        \A k \in 1..4 :
            (/\ src.kind = "exif"
             /\ Malformed(src, k)
             /\ \A j \in 1..(k - 1) : WellFormed(src, j)) =>
                /\ pc # "panic"
                /\ features = <<>>
                /\ Len(stderr) = 1
                /\ stderr[1].kind = "source"
                /\ stderr[1].error[1] = "invalid field "
                /\ stderr[1].error[2] = GpsTags[k]

\* the magnitude d + m/60 + s/3600 of three rationals, as one fraction
Magnitude(dms) ==
    F64(dms[1].num * (60 * dms[2].denom) * (3600 * dms[3].denom)
          + dms[2].num * dms[1].denom * (3600 * dms[3].denom)
          + dms[3].num * dms[1].denom * (60 * dms[2].denom),
        dms[1].denom * (60 * dms[2].denom) * (3600 * dms[3].denom))

\* -1 exactly when the text ends with the letter, else +1
Sign(text, letter) ==
    IF Len(text) > 0 /\ text[Len(text)] = letter THEN -1 ELSE 1

Signed(sign, x) == [n |-> sign * x.n, d |-> x.d]

\* C7: the point of a successfully processed file is [lon, lat], with
\* lat = sign(latref, "S") * (d1 + m1/60 + s1/3600) and
\* lon = sign(lonref, "W") * (d2 + m2/60 + s2/3600).
C7_SignedDecimalDegrees ==
    \A i \in Processed :
        Outcome(i).res = "Ok" =>
            LET exif == files[i].exif
                lat == Signed(Sign(exif[GPSLatitudeRef].strs[1], 83),
                              Magnitude(exif[GPSLatitude].rats))
                lon == Signed(Sign(exif[GPSLongitudeRef].strs[1], 87),
                              Magnitude(exif[GPSLongitude].rats))
            IN features[FeatureIndex(i)].geometry = Some(PointValue(lon, lat))

C7_Witness ==
    /\ fi = 2
    /\ Len(features) = 1
    /\ files[1].exif[GPSLatitudeRef] = Ascii(<<TextS>>)
    /\ files[1].exif[GPSLongitudeRef] = Ascii(<<TextS>>)
    /\ files[1].exif[GPSLatitude] = Dms(40, 26, 46)
    /\ files[1].exif[GPSLongitude] = Dms(200, 0, 0)
    /\ features[1].geometry.value.coordinates = <<F64(200, 1), F64(-72803, 1800)>>

\* what each property name maps to for a file
ExpectedValue(src, name) ==
    CASE name = "filename" -> [String |-> to_string_lossy(src.path[Len(src.path)])]
      [] name = "path" -> [String |-> PathLossy(Resolve(Cwd, src.path))]
      [] name = "datetime" -> [String |-> src.exif[DateTimeOriginal].strs[1]]

\* C8: the properties of a feature are always present as a map whose keys are
\* exactly the canonical names of the selectors in the list (empty for the
\* empty list), each mapped to that selector's value for the file.
C8_PropertiesMap ==
    \A i \in Processed :
        Outcome(i).res = "Ok" =>
            LET props == features[FeatureIndex(i)].properties IN
            /\ props.is_some
            /\ DOMAIN props.value = Range(requested)
            /\ \A k \in DOMAIN props.value : props.value[k] = ExpectedValue(files[i], k)

C8_Witness ==
    /\ pc = "done"
    /\ requested = <<"filename", "filename">>
    /\ Len(features) = 1
    /\ DOMAIN features[1].properties.value = {"filename"}
    /\ features[1].properties.value["filename"] = [String |-> "b.jpg"]

\* a selector that fails for a file, as C9 lists the failures
SelectorFails(src, prop) ==
    \/ prop = Path /\ ~src.canon
    \/ /\ prop = Datetime
       /\ LET f == src.exif[DateTimeOriginal] IN
          \/ f = NoField
          \/ f.type # "Ascii"
          \/ f.type = "Ascii" /\ Len(f.strs) > 0 /\ from_utf8(f.strs[1]).res = "Err"

CoordinatesOk(src) ==
    /\ src.kind = "exif"
    /\ get_latitude(src.exif).res = "Ok"
    /\ get_longitude(src.exif).res = "Ok"

\* C9: a file whose coordinate is extracted and for which some selector of
\* the list fails adds no feature and gets its one diagnostic, whatever the
\* selector's position; and Filename never fails.
C9_SelectorFailureIsSourceError ==
    \A i \in Processed :
        CoordinatesOk(files[i]) =>
            /\ (\E j \in 1..Len(valid_properties) :
                    SelectorFails(files[i], valid_properties[j])) =>
                   /\ Outcome(i).res = "Err"
                   /\ \E n \in 1..Len(stderr) :
                         stderr[n] = SourceLine(files[i], Outcome(i).err)
            /\ Range(valid_properties) \subseteq {Filename} => Outcome(i).res = "Ok"

\* C10: every collected feature has latitude in [-90, 90] and longitude in
\* [-180, 180].
C10_CoordinatesInRange ==
    \A n \in 1..Len(features) :
        LET c == features[n].geometry.value.coordinates IN
        /\ FLe(F64(-180, 1), c[1]) /\ FLe(c[1], F64(180, 1))
        /\ FLe(F64(-90, 1), c[2]) /\ FLe(c[2], F64(90, 1))

=============================================================================
